---- MODULE Spec2Model ----
(***************************************************************************)
(* Ordering assertions of spectral (src/src/numeric.rs): a Spec container  *)
(* wraps a borrowed subject of a type T: Debug + PartialOrd, and the four  *)
(* OrderedSpec predicates either return the container or set the expected  *)
(* and actual descriptions and panic through fail().                       *)
(*                                                                         *)
(* T is instantiated with i32 (the type of the unit tests) and with f64,   *)
(* whose NaN is incomparable under PartialOrd.                             *)
(***************************************************************************)
EXTENDS Integers, Sequences, FiniteSets, TLC

\* ---- bounds of the model ----
\* largest and smallest (negated) small value, one multi-digit value, and
\* the longest chain of predicate calls on one container
MaxVal == 3
MaxNeg == 1
BigVal == 12
MaxCalls == 2

VARIABLES
    ty,       \* the type parameter T of Spec<'s, T>: "i32" or "f64"
    self,     \* the container: [subject, expected, actual]
    status,   \* "running", or "aborted" once fail() has panicked
    message,  \* the panic message carried by the abort ("" while running)
    made,     \* the container as constructed by assert_that (history)
    chain     \* the predicate calls made so far on the container (history)

vars == <<ty, self, status, message, made, chain>>

\* ---- values of T ----
Num(n) == [nan |-> FALSE, n |-> n]
NaN == [nan |-> TRUE, n |-> 0]

Ints == ((0 - MaxNeg) .. MaxVal) \cup {BigVal}

Types == {"i32", "f64"}

Values(t) == {Num(n) : n \in Ints} \cup (IF t = "f64" THEN {NaN} ELSE {})

\* Option<String>: None is the empty sequence, Some(s) is <<s>>
None == << >>
Some(s) == <<s>>

\* ---- PartialOrd (the comparison operators the predicates use) ----
partial_cmp(a, b) ==
    IF a.nan \/ b.nan THEN "None"
    ELSE IF a.n < b.n THEN "Less"
    ELSE IF a.n = b.n THEN "Equal"
    ELSE "Greater"

lt(a, b) == partial_cmp(a, b) = "Less"
le(a, b) == partial_cmp(a, b) \in {"Less", "Equal"}
gt(a, b) == partial_cmp(a, b) = "Greater"
ge(a, b) == partial_cmp(a, b) \in {"Greater", "Equal"}

\* ---- Debug rendering, format!("{:?}", v) ----
Digit(d) ==
    CASE d = 0 -> "0" [] d = 1 -> "1" [] d = 2 -> "2" [] d = 3 -> "3"
      [] d = 4 -> "4" [] d = 5 -> "5" [] d = 6 -> "6" [] d = 7 -> "7"
      [] d = 8 -> "8" [] d = 9 -> "9"

RECURSIVE NatStr(_)
NatStr(n) == IF n < 10 THEN Digit(n) ELSE NatStr(n \div 10) \o Digit(n % 10)

IntStr(n) == IF n < 0 THEN "-" \o NatStr(0 - n) ELSE NatStr(n)

\* i32 renders as its decimal digits; an integral f64 renders with ".0";
\* the f64 NaN renders as "NaN"
Debug(t, v) ==
    IF v.nan THEN "NaN"
    ELSE IF t = "f64" THEN IntStr(v.n) \o ".0"
    ELSE IntStr(v.n)

\* ---- the Subject Container primitives ----
with_expected(c, text) == [c EXCEPT !.expected = Some(text)]

with_actual(c, text) == [c EXCEPT !.actual = Some(text)]

Text(opt) == IF opt = None THEN "" ELSE opt[1]

\* the message fail() panics with
fail(c) == "\n\texpected: " \o Text(c.expected) \o "\n\t but was: " \o Text(c.actual)

assert_that(v) == [subject |-> v, expected |-> None, actual |-> None]

Call(op, other) == [op |-> op, other |-> other]

\* a predicate can be called while the chain is alive: a panic unwinds out
\* of the chain, so nothing is called on the container after it
Callable == status = "running" /\ Len(chain) < MaxCalls

Init ==
    /\ ty \in Types
    /\ \E v \in Values(ty) : self = assert_that(v)
    /\ made = self
    /\ status = "running"
    /\ message = ""
    /\ chain = << >>

\* ---- the four ordering predicates ----
\* is_less_than with a plausible slip: the strict complement `>` where the
\* code has `>=`, so that an equal subject passes
is_less_than_strict(other) ==
    /\ Callable
    /\ LET subject == self.subject IN
       IF gt(subject, other)
       THEN LET c == with_actual(
                       with_expected(self, "value less than <" \o Debug(ty, other) \o ">"),
                       "<" \o Debug(ty, subject) \o ">")
            IN /\ self' = c
               /\ message' = fail(c)
               /\ status' = "aborted"
       ELSE UNCHANGED <<self, message, status>>
    /\ chain' = Append(chain, Call("is_less_than", other))
    /\ UNCHANGED <<ty, made>>

\* is_less_than with a plausible slip: the expectation is stored before the
\* comparison, so that a passing call leaves it populated
is_less_than_eager(other) ==
    /\ Callable
    /\ LET subject == self.subject
           e == with_expected(self, "value less than <" \o Debug(ty, other) \o ">")
       IN
       IF ge(subject, other)
       THEN LET c == with_actual(e, "<" \o Debug(ty, subject) \o ">")
            IN /\ self' = c
               /\ message' = fail(c)
               /\ status' = "aborted"
       ELSE self' = e /\ UNCHANGED <<message, status>>
    /\ chain' = Append(chain, Call("is_less_than", other))
    /\ UNCHANGED <<ty, made>>

is_less_than(other) ==
    /\ Callable
    /\ LET subject == self.subject IN
       IF ge(subject, other)
       THEN LET c == with_actual(
                       with_expected(self, "value less than <" \o Debug(ty, other) \o ">"),
                       "<" \o Debug(ty, subject) \o ">")
            IN /\ self' = c
               /\ message' = fail(c)
               /\ status' = "aborted"
       ELSE UNCHANGED <<self, message, status>>
    /\ chain' = Append(chain, Call("is_less_than", other))
    /\ UNCHANGED <<ty, made>>

\* is_less_than_or_equal_to with a plausible slip: fail() is reached before
\* with_actual, so that the panic carries no actual description
is_less_than_or_equal_to_early_fail(other) ==
    /\ Callable
    /\ LET subject == self.subject IN
       IF gt(subject, other)
       THEN LET e == with_expected(self, "value less than or equal to <" \o Debug(ty, other) \o ">")
                c == with_actual(e, "<" \o Debug(ty, subject) \o ">")
            IN /\ self' = c
               /\ message' = fail(e)
               /\ status' = "aborted"
       ELSE UNCHANGED <<self, message, status>>
    /\ chain' = Append(chain, Call("is_less_than_or_equal_to", other))
    /\ UNCHANGED <<ty, made>>

is_less_than_or_equal_to(other) ==
    /\ Callable
    /\ LET subject == self.subject IN
       IF gt(subject, other)
       THEN LET c == with_actual(
                       with_expected(self, "value less than or equal to <" \o Debug(ty, other) \o ">"),
                       "<" \o Debug(ty, subject) \o ">")
            IN /\ self' = c
               /\ message' = fail(c)
               /\ status' = "aborted"
       ELSE UNCHANGED <<self, message, status>>
    /\ chain' = Append(chain, Call("is_less_than_or_equal_to", other))
    /\ UNCHANGED <<ty, made>>

\* is_greater_than with a plausible slip: subject and other exchanged in
\* the two descriptions
is_greater_than_swapped(other) ==
    /\ Callable
    /\ LET subject == self.subject IN
       IF le(subject, other)
       THEN LET c == with_actual(
                       with_expected(self, "value greater than <" \o Debug(ty, subject) \o ">"),
                       "<" \o Debug(ty, other) \o ">")
            IN /\ self' = c
               /\ message' = fail(c)
               /\ status' = "aborted"
       ELSE UNCHANGED <<self, message, status>>
    /\ chain' = Append(chain, Call("is_greater_than", other))
    /\ UNCHANGED <<ty, made>>

\* is_greater_than with a plausible slip: the container is re-pointed at
\* the other value when the call fails
is_greater_than_rebinding(other) ==
    /\ Callable
    /\ LET subject == self.subject IN
       IF le(subject, other)
       THEN LET c == with_actual(
                       with_expected(self, "value greater than <" \o Debug(ty, other) \o ">"),
                       "<" \o Debug(ty, subject) \o ">")
            IN /\ self' = [c EXCEPT !.subject = other]
               /\ message' = fail(c)
               /\ status' = "aborted"
       ELSE UNCHANGED <<self, message, status>>
    /\ chain' = Append(chain, Call("is_greater_than", other))
    /\ UNCHANGED <<ty, made>>

is_greater_than(other) ==
    /\ Callable
    /\ LET subject == self.subject IN
       IF le(subject, other)
       THEN LET c == with_actual(
                       with_expected(self, "value greater than <" \o Debug(ty, other) \o ">"),
                       "<" \o Debug(ty, subject) \o ">")
            IN /\ self' = c
               /\ message' = fail(c)
               /\ status' = "aborted"
       ELSE UNCHANGED <<self, message, status>>
    /\ chain' = Append(chain, Call("is_greater_than", other))
    /\ UNCHANGED <<ty, made>>

\* is_greater_than_or_equal_to with a plausible slip: `<=` where the code
\* has `<`, so that an equal subject fails
is_greater_than_or_equal_to_nonstrict(other) ==
    /\ Callable
    /\ LET subject == self.subject IN
       IF le(subject, other)
       THEN LET c == with_actual(
                       with_expected(self, "value greater than or equal to <" \o Debug(ty, other) \o ">"),
                       "<" \o Debug(ty, subject) \o ">")
            IN /\ self' = c
               /\ message' = fail(c)
               /\ status' = "aborted"
       ELSE UNCHANGED <<self, message, status>>
    /\ chain' = Append(chain, Call("is_greater_than_or_equal_to", other))
    /\ UNCHANGED <<ty, made>>

is_greater_than_or_equal_to(other) ==
    /\ Callable
    /\ LET subject == self.subject IN
       IF lt(subject, other)
       THEN LET c == with_actual(
                       with_expected(self, "value greater than or equal to <" \o Debug(ty, other) \o ">"),
                       "<" \o Debug(ty, subject) \o ">")
            IN /\ self' = c
               /\ message' = fail(c)
               /\ status' = "aborted"
       ELSE UNCHANGED <<self, message, status>>
    /\ chain' = Append(chain, Call("is_greater_than_or_equal_to", other))
    /\ UNCHANGED <<ty, made>>

Next ==
    \E other \in Values(ty) :
        \/ is_less_than(other)
        \/ is_less_than_or_equal_to(other)
        \/ is_greater_than(other)
        \/ is_greater_than_or_equal_to(other)

Spec == Init /\ [][Next]_vars

TypeOK ==
    /\ ty \in Types
    /\ self.subject \in Values(ty)
    /\ status \in {"running", "aborted"}
    /\ Len(chain) <= MaxCalls

\* ---- vocabulary of the properties ----
Called == Len(chain) > 0
Last == chain[Len(chain)]
Subject == self.subject
Aborted == status = "aborted"

Comparable(a, b) == ~a.nan /\ ~b.nan

\* the relation a predicate asserts of subject s and other o; it is
\* established only between comparable values
Holds(op, s, o) ==
    /\ Comparable(s, o)
    /\ CASE op = "is_less_than" -> s.n < o.n
         [] op = "is_less_than_or_equal_to" -> s.n <= o.n
         [] op = "is_greater_than" -> s.n > o.n
         [] op = "is_greater_than_or_equal_to" -> s.n >= o.n

Phrase(op) ==
    CASE op = "is_less_than" -> "value less than "
      [] op = "is_less_than_or_equal_to" -> "value less than or equal to "
      [] op = "is_greater_than" -> "value greater than "
      [] op = "is_greater_than_or_equal_to" -> "value greater than or equal to "

Expectation(op, o) == Phrase(op) \o "<" \o Debug(ty, o) \o ">"
Actual(s) == "<" \o Debug(ty, s) \o ">"

FailedWith(op, s, o) ==
    /\ Aborted
    /\ self.expected = Some(Expectation(op, o))
    /\ self.actual = Some(Actual(s))

LastIs(op) == Called /\ Last.op = op
LastCase(op, s, o) == LastIs(op) /\ ty = "i32" /\ Subject = Num(s) /\ Last.other = Num(o)

\* C1: a predicate whose relation between subject and other is not
\* established (the relation is false, or the two are incomparable, as with
\* NaN) aborts instead of passing.
C1_FailsUnlessEstablished ==
    Called => (~Holds(Last.op, Subject, Last.other) => Aborted)

\* C2: for comparable a < b, is_less_than passes on subject a against b and
\* aborts on subject b against a with expectation "value less than <a>" and
\* actual "<b>"; on equal values it aborts too.
C2_LessThan ==
    /\ (LastIs("is_less_than") /\ Comparable(Subject, Last.other)) =>
          /\ Subject.n < Last.other.n => ~Aborted /\ message = ""
          /\ Subject.n >= Last.other.n =>
                FailedWith("is_less_than", Subject, Last.other)
    /\ LastCase("is_less_than", 3, 2) =>
          self.expected = Some("value less than <2>") /\ self.actual = Some("<3>")
    /\ LastCase("is_less_than", 1, 2) => ~Aborted

C2_Witness ==
    /\ LastCase("is_less_than", 3, 2)
    /\ Aborted

\* C3: for comparable a > b, is_greater_than passes on subject a against b
\* and aborts on subject b against a with expectation "value greater than
\* <a>" and actual "<b>"; on equal values it aborts too.
C3_GreaterThan ==
    /\ (LastIs("is_greater_than") /\ Comparable(Subject, Last.other)) =>
          /\ Subject.n > Last.other.n => ~Aborted /\ message = ""
          /\ Subject.n <= Last.other.n =>
                FailedWith("is_greater_than", Subject, Last.other)
    /\ LastCase("is_greater_than", 2, 3) =>
          self.expected = Some("value greater than <3>") /\ self.actual = Some("<2>")
    /\ LastCase("is_greater_than", 3, 2) => ~Aborted

C3_Witness ==
    /\ LastCase("is_greater_than", 2, 3)
    /\ Aborted

\* C4: is_less_than_or_equal_to passes exactly when subject <= other: it
\* passes on (a, a) and whenever subject < other, and when subject > other
\* it aborts with expectation "value less than or equal to <o>" and actual
\* "<s>".
C4_LessOrEqualExactly ==
    LastIs("is_less_than_or_equal_to") =>
        /\ ~Aborted <=> Holds("is_less_than_or_equal_to", Subject, Last.other)
        /\ Subject = Last.other => ~Aborted
        /\ Holds("is_greater_than", Subject, Last.other) =>
              FailedWith("is_less_than_or_equal_to", Subject, Last.other)

\* C4 restricted to comparable subject and other (what the code does
\* satisfy): pass exactly when subject <= other, else the stated texts.
LessOrEqualOnComparable ==
    (LastIs("is_less_than_or_equal_to") /\ Comparable(Subject, Last.other)) =>
        /\ ~Aborted <=> Subject.n <= Last.other.n
        /\ Aborted => FailedWith("is_less_than_or_equal_to", Subject, Last.other)
        /\ LastCase("is_less_than_or_equal_to", 3, 2) =>
              message = "\n\texpected: value less than or equal to <2>\n\t but was: <3>"

\* C5: is_greater_than_or_equal_to passes exactly when subject >= other: it
\* passes on (a, a) and whenever subject > other, and when subject < other
\* it aborts with expectation "value greater than or equal to <o>" and
\* actual "<s>".
C5_GreaterOrEqualExactly ==
    LastIs("is_greater_than_or_equal_to") =>
        /\ ~Aborted <=> Holds("is_greater_than_or_equal_to", Subject, Last.other)
        /\ Subject = Last.other => ~Aborted
        /\ Holds("is_less_than", Subject, Last.other) =>
              FailedWith("is_greater_than_or_equal_to", Subject, Last.other)

\* C5 restricted to comparable subject and other (what the code does
\* satisfy): pass exactly when subject >= other, else the stated texts.
GreaterOrEqualOnComparable ==
    (LastIs("is_greater_than_or_equal_to") /\ Comparable(Subject, Last.other)) =>
        /\ ~Aborted <=> Subject.n >= Last.other.n
        /\ Aborted => FailedWith("is_greater_than_or_equal_to", Subject, Last.other)
        /\ LastCase("is_greater_than_or_equal_to", 2, 3) =>
              message = "\n\texpected: value greater than or equal to <3>\n\t but was: <2>"

\* C6: whenever a predicate has aborted, both descriptions are present and
\* are the ones of the aborting call (not absent, not left from an earlier
\* call), and the message is exactly "\n\texpected: " + expectation +
\* "\n\t but was: " + actual.
C6_AbortMessage ==
    /\ Aborted =>
          /\ Called
          /\ self.expected # None /\ self.actual # None
          /\ self.expected = Some(Expectation(Last.op, Last.other))
          /\ self.actual = Some(Actual(Subject))
          /\ message = "\n\texpected: " \o self.expected[1]
                          \o "\n\t but was: " \o self.actual[1]
    /\ (LastCase("is_less_than", 3, 2) /\ Aborted) =>
          message = "\n\texpected: value less than <2>\n\t but was: <3>"
    /\ (LastCase("is_less_than_or_equal_to", 3, 2) /\ Aborted) =>
          message = "\n\texpected: value less than or equal to <2>\n\t but was: <3>"
    /\ (LastCase("is_greater_than", 2, 3) /\ Aborted) =>
          message = "\n\texpected: value greater than <3>\n\t but was: <2>"
    /\ (LastCase("is_greater_than_or_equal_to", 2, 3) /\ Aborted) =>
          message = "\n\texpected: value greater than or equal to <3>\n\t but was: <2>"

C6_Witness ==
    /\ LastCase("is_less_than_or_equal_to", 3, 2)
    /\ Aborted
    /\ Len(chain) = 2

\* C7: a chain of predicate calls whose relations all hold for the subject
\* given at construction runs every call against that same subject and
\* has not aborted.
AllHold ==
    \A i \in 1 .. Len(chain) : Holds(chain[i].op, made.subject, chain[i].other)

C7_PassingChain ==
    AllHold => /\ ~Aborted
               /\ message = ""
               /\ Subject = made.subject

C7_Witness ==
    /\ Len(chain) >= 2
    /\ chain[1].op = "is_greater_than_or_equal_to"
    /\ chain[2].op = "is_less_than"
    /\ chain[1].other = Subject
    /\ AllHold
    /\ ~Aborted

\* C8: the first call of a chain whose relation does not hold aborts the
\* chain: no call follows it, and the abort message is the one of that call.
C8_FailFast ==
    /\ \A i \in 1 .. Len(chain) - 1 :
          Holds(chain[i].op, made.subject, chain[i].other)
    /\ (Called /\ ~Holds(Last.op, made.subject, Last.other)) =>
          /\ Aborted
          /\ message = "\n\texpected: " \o Expectation(Last.op, Last.other)
                          \o "\n\t but was: " \o Actual(made.subject)

\* Fail-fast as the code has it: once a predicate has panicked no further
\* predicate runs on the container, so every call but the last one passed.
NothingAfterAbort == [][~Aborted]_vars

\* C9: while the chain has not aborted, the expected and actual
\* descriptions are the ones of construction: a passing predicate returns
\* the container unchanged.
C9_PassLeavesDescriptions ==
    ~Aborted => /\ self.expected = made.expected
                /\ self.actual = made.actual
                /\ self = made

C9_Witness ==
    /\ Len(chain) = 2
    /\ ~Aborted
    /\ chain[1].op = "is_less_than"
    /\ chain[2].op = "is_greater_than_or_equal_to"

\* C10: no predicate, passing or failing, changes the subject: after any
\* calls the subject is the value given at construction, and a failing
\* predicate changes only the two descriptions and the abort status.
C10_SubjectFrame ==
    /\ Subject = made.subject
    /\ [self EXCEPT !.expected = made.expected, !.actual = made.actual] = made

C10_Witness ==
    /\ Aborted
    /\ Len(chain) = 2
    /\ Last.op = "is_greater_than"
    /\ Last.other # Subject
====
